---- MODULE Spec2Model ----
(***************************************************************************)
(* The embedded modal terminal text editor of cli-novel-writer             *)
(* (rust-cli/src/editor): the text buffer with its undo/redo history, the  *)
(* cursor and the editor session's key handling and event loop.            *)
(*                                                                         *)
(* A line is a sequence of one-character strings; rows and columns are     *)
(* 0-based as in the source, so row r is element r + 1 of the line list.   *)
(***************************************************************************)
EXTENDS Integers, Sequences, FiniteSets, TLC

VARIABLES
    buffer,            \* TextBuffer: lines, file_path, undo_stack, redo_stack
    cursor,            \* Cursor: row, col, preferred_col
    height,            \* Screen.height
    mode,              \* EditorMode
    should_quit,
    status_message,
    is_dirty,
    typewriter_mode,
    distraction_free,
    last_key,          \* Option<KeyEvent>: NoKey or [code, ctrl]
    elapsed,           \* ms since last_key_time, as Instant::now() would give
    pc,                \* where launch() and run() stand
    terminal,          \* "cooked", or "raw" (raw mode and alternate screen)
    action,            \* history: the operation the latest step dispatched
    phase              \* history: "fresh", "undone" or "edited" (after undo);
                       \* in SpecChord, what the key event before the latest
                       \* one dispatched

vars == <<buffer, cursor, height, mode, should_quit, status_message, is_dirty,
          typewriter_mode, distraction_free, last_key, elapsed, pc, terminal,
          action, phase>>

----------------------------------------------------------------------------
(* Bounds of the model. *)

MaxSize == 3      \* lines plus characters of a document

Chars == {"a"}
LF == "\n"
CR == "\r"

Min(a, b) == IF a < b THEN a ELSE b
Max(a, b) == IF a > b THEN a ELSE b

----------------------------------------------------------------------------
(* String helpers (std::string::String / str). *)

\* A String is its sequence of UTF-8 bytes: len(), insert, remove and split_at
\* count and index bytes.  An ASCII character is the one byte named after it;
\* the two-byte character U+00E9 is the bytes "C3" "A9".
EAcute == "e_acute"
LeadByte == "C3"
ContByte == "A9"

\* the UTF-8 encoding of the char ch
Utf8(ch) == IF ch = EAcute THEN <<LeadByte, ContByte>> ELSE <<ch>>

\* str::is_char_boundary(i)
is_char_boundary(s, i) ==
    \/ i = 0
    \/ i = Len(s)
    \/ i < Len(s) /\ s[i + 1] # ContByte

\* bytes of the char that starts at byte col of s
CharWidth(s, col) ==
    IF col + 1 < Len(s) /\ s[col + 2] = ContByte THEN 2 ELSE 1

\* s.chars().collect::<Vec<char>>(): one element per char
chars(s) == SelectSeq(s, LAMBDA x : x # ContByte)

\* String::insert(col, ch)
StrInsert(s, col, ch) ==
    SubSeq(s, 1, col) \o Utf8(ch) \o SubSeq(s, col + 1, Len(s))

\* String::remove(col)
StrRemove(s, col) ==
    SubSeq(s, 1, col) \o SubSeq(s, col + 1 + CharWidth(s, col), Len(s))

\* Vec::remove(row)
VecRemove(v, row) ==
    SubSeq(v, 1, row) \o SubSeq(v, row + 2, Len(v))

\* Vec::insert(row, x)
VecInsert(v, row, x) ==
    SubSeq(v, 1, row) \o <<x>> \o SubSeq(v, row + 1, Len(v))

\* str::replace(from, to): non-overlapping matches, left to right; the empty
\* pattern matches at every character boundary.
RECURSIVE StrReplace(_, _, _)
StrReplace(s, from, to) ==
    IF from = <<>>
    THEN IF s = <<>> THEN to
         ELSE to \o <<Head(s)>> \o StrReplace(Tail(s), from, to)
    ELSE IF Len(s) < Len(from) THEN s
    ELSE IF SubSeq(s, 1, Len(from)) = from
         THEN to \o StrReplace(SubSeq(s, Len(from) + 1, Len(s)), from, to)
         ELSE <<Head(s)>> \o StrReplace(Tail(s), from, to)

\* str::split_inclusive('\n')
RECURSIVE SplitInclusive(_)
SplitInclusive(s) ==
    IF s = <<>> THEN <<>>
    ELSE IF \E i \in 1..Len(s) : s[i] = LF
         THEN LET i == CHOOSE k \in 1..Len(s) :
                           s[k] = LF /\ \A j \in 1..(k - 1) : s[j] # LF
              IN  <<SubSeq(s, 1, i)>> \o SplitInclusive(SubSeq(s, i + 1, Len(s)))
         ELSE <<s>>

\* the closure of str::lines(): strip one "\n", then one "\r" before it
StripLineEnding(piece) ==
    IF piece # <<>> /\ piece[Len(piece)] = LF
    THEN LET l == SubSeq(piece, 1, Len(piece) - 1)
         IN  IF l # <<>> /\ l[Len(l)] = CR THEN SubSeq(l, 1, Len(l) - 1) ELSE l
    ELSE piece

\* str::lines()
StrLines(s) ==
    LET p == SplitInclusive(s) IN [i \in 1..Len(p) |-> StripLineEnding(p[i])]

----------------------------------------------------------------------------
(* TextBuffer (editor/buffer.rs): operators from a buffer record to the    *)
(* buffer record after the call.                                           *)

max_undo_levels == 100

BufferState(ls, r, c) == [lines |-> ls, cursor_row |-> r, cursor_col |-> c]

\* TextBuffer::new
NewBuffer ==
    [lines |-> << <<>> >>, file_path |-> "None",
     undo_stack |-> <<>>, redo_stack |-> <<>>]

\* str::split('\n'): unlike lines(), keeps the empty piece after a final "\n"
RECURSIVE StrSplit(_)
StrSplit(s) ==
    IF \E i \in 1..Len(s) : s[i] = LF
    THEN LET i == CHOOSE k \in 1..Len(s) :
                      s[k] = LF /\ \A j \in 1..(k - 1) : s[j] # LF
         IN  <<SubSeq(s, 1, i - 1)>> \o StrSplit(SubSeq(s, i + 1, Len(s)))
    ELSE <<s>>

\* load_from_string splitting with split('\n') instead of lines()
load_from_string_split(b, content) ==
    [b EXCEPT !.lines = StrSplit(content)]

load_from_string(b, content) ==
    IF content = <<>>
    THEN [b EXCEPT !.lines = << <<>> >>]
    ELSE LET ls == StrLines(content)
         IN  [b EXCEPT !.lines = IF ls = <<>> THEN << <<>> >> ELSE ls]

line_count(b) == Len(b.lines)

get_line_length(b, row) ==
    IF row < Len(b.lines) THEN Len(b.lines[row + 1]) ELSE 0

\* save_state evicting the newest of the old entries instead of the oldest
save_state_evict_newest(b, cursor_row, cursor_col) ==
    LET n == Len(b.undo_stack)
        kept == IF n + 1 > max_undo_levels
                THEN SubSeq(b.undo_stack, 1, n - 1) ELSE b.undo_stack
    IN  [b EXCEPT !.undo_stack =
                      Append(kept, BufferState(b.lines, cursor_row, cursor_col)),
                  !.redo_stack = <<>>]

save_state(b, cursor_row, cursor_col) ==
    LET pushed == Append(b.undo_stack,
                         BufferState(b.lines, cursor_row, cursor_col))
    IN  [b EXCEPT !.undo_stack = IF Len(pushed) > max_undo_levels
                                 THEN Tail(pushed) ELSE pushed,
                  !.redo_stack = <<>>]

insert_char(b, row, col, ch) ==
    LET s    == save_state(b, row, col)
        ext  == IF row >= Len(s.lines)
                THEN s.lines \o [i \in 1..(row + 1 - Len(s.lines)) |-> <<>>]
                ELSE s.lines
        line == ext[row + 1]
        c    == Min(col, Len(line))
    IN  [s EXCEPT !.lines = [ext EXCEPT ![row + 1] = StrInsert(line, c, ch)]]

delete_char(b, row, col) ==
    IF row >= Len(b.lines) THEN b
    ELSE LET s    == save_state(b, row, col)
             line == s.lines[row + 1]
         IN  IF col < Len(line)
             THEN [s EXCEPT !.lines[row + 1] = StrRemove(line, col)]
             ELSE s

insert_newline(b, row, col) ==
    LET s == save_state(b, row, col)
    IN  IF row >= Len(s.lines)
        THEN [s EXCEPT !.lines = Append(s.lines, <<>>)]
        ELSE LET line  == s.lines[row + 1]
                 c     == Min(col, Len(line))
                 left  == SubSeq(line, 1, c)
                 right == SubSeq(line, c + 1, Len(line))
             IN  [s EXCEPT !.lines =
                      VecInsert([s.lines EXCEPT ![row + 1] = left],
                                row + 1, right)]

\* delete_line without the refill of an emptied document
delete_line_no_refill(b, row) ==
    IF row >= Len(b.lines) THEN b
    ELSE [save_state(b, row, 0) EXCEPT !.lines = VecRemove(b.lines, row)]

delete_line(b, row) ==
    IF row >= Len(b.lines) THEN b
    ELSE LET s       == save_state(b, row, 0)
             removed == VecRemove(s.lines, row)
         IN  [s EXCEPT !.lines = IF removed = <<>> THEN << <<>> >>
                                 ELSE removed]

join_lines(b, row) ==
    IF row >= Max(Len(b.lines) - 1, 0) THEN b
    ELSE LET s         == save_state(b, row, 0)
             next_line == s.lines[row + 2]
             removed   == VecRemove(s.lines, row + 1)
         IN  [s EXCEPT !.lines =
                  [removed EXCEPT ![row + 1] = removed[row + 1] \o next_line]]

\* undo() and redo() give the buffer after the call and the returned flag
undo(b) ==
    IF b.undo_stack # <<>>
    THEN LET n     == Len(b.undo_stack)
             state == b.undo_stack[n]
         IN  [ok  |-> TRUE,
              buf |-> [b EXCEPT !.undo_stack = SubSeq(b.undo_stack, 1, n - 1),
                                !.redo_stack = Append(b.redo_stack,
                                                  BufferState(b.lines, 0, 0)),
                                !.lines = state.lines]]
    ELSE [ok |-> FALSE, buf |-> b]

redo(b) ==
    IF b.redo_stack # <<>>
    THEN LET n     == Len(b.redo_stack)
             state == b.redo_stack[n]
         IN  [ok  |-> TRUE,
              buf |-> [b EXCEPT !.redo_stack = SubSeq(b.redo_stack, 1, n - 1),
                                !.undo_stack = Append(b.undo_stack,
                                                  BufferState(b.lines, 0, 0)),
                                !.lines = state.lines]]
    ELSE [ok |-> FALSE, buf |-> b]

\* replace_text gives the buffer after the call; the returned count is
\* replace_count
replace_text(b, search_term, replace_term) ==
    [b EXCEPT !.lines = [i \in 1..Len(b.lines) |->
                             StrReplace(b.lines[i], search_term, replace_term)]]

replace_count(b, search_term, replace_term) ==
    Cardinality({i \in 1..Len(b.lines) :
                    StrReplace(b.lines[i], search_term, replace_term)
                        # b.lines[i]})

----------------------------------------------------------------------------
(* Cursor (editor/cursor.rs): operators from a cursor record, and the      *)
(* buffer it reads, to the cursor record after the call.                   *)

NewCursor == [row |-> 0, col |-> 0, preferred_col |-> 0]

move_left(c) ==
    IF c.col > 0
    THEN [c EXCEPT !.col = c.col - 1, !.preferred_col = c.col - 1]
    ELSE c

move_right(c, b) ==
    IF c.col < get_line_length(b, c.row)
    THEN [c EXCEPT !.col = c.col + 1, !.preferred_col = c.col + 1]
    ELSE c

move_up(c) ==
    IF c.row > 0
    THEN [c EXCEPT !.row = c.row - 1, !.col = c.preferred_col]
    ELSE c

\* a move_down that takes the clamped column as the new preferred one
move_down_resets_preferred(c, b) ==
    IF c.row < Max(line_count(b) - 1, 0)
    THEN LET col == Min(c.preferred_col, get_line_length(b, c.row + 1))
         IN  [row |-> c.row + 1, col |-> col, preferred_col |-> col]
    ELSE c

move_down(c, b) ==
    IF c.row < Max(line_count(b) - 1, 0)
    THEN [c EXCEPT !.row = c.row + 1,
                   !.col = Min(c.preferred_col,
                               get_line_length(b, c.row + 1))]
    ELSE c

move_to_start_of_line(c) == [c EXCEPT !.col = 0, !.preferred_col = 0]

move_to_end_of_line(c, b) ==
    [c EXCEPT !.col = get_line_length(b, c.row),
              !.preferred_col = get_line_length(b, c.row)]

clamp_to_buffer(c, b) ==
    IF line_count(b) = 0
    THEN [row |-> 0, col |-> 0, preferred_col |-> 0]
    ELSE LET row == Min(c.row, Max(line_count(b) - 1, 0))
             col == Min(c.col, get_line_length(b, row))
         IN  [row |-> row, col |-> col, preferred_col |-> col]

\* `n` calls of a cursor move, as the loops of page_up and page_down make
RECURSIVE Repeat(_, _, _)
Repeat(Move(_), n, c) == IF n = 0 THEN c ELSE Repeat(Move, n - 1, Move(c))

----------------------------------------------------------------------------
(* The editor session's state right after WritersEditor::new().            *)

NoKey == [code |-> "None", ctrl |-> FALSE]

Init ==
    /\ buffer = NewBuffer
    /\ cursor = NewCursor
    /\ height = 24
    /\ mode = "Navigation"
    /\ should_quit = FALSE
    /\ status_message = "Ready"
    /\ is_dirty = FALSE
    /\ typewriter_mode = FALSE
    /\ distraction_free = FALSE
    /\ last_key = NoKey
    /\ elapsed = 0
    /\ pc = "new"
    /\ terminal = "cooked"
    /\ action = "new"
    /\ phase = "fresh"

sessionVars == <<cursor, height, mode, should_quit, status_message, is_dirty,
                 typewriter_mode, distraction_free, last_key, elapsed, pc,
                 terminal>>

----------------------------------------------------------------------------
(* SpecBuf: the TextBuffer driven directly through its public methods,     *)
(* with row and column arguments in and out of range.                      *)

Rows == 0..(MaxSize - 1)
Cols == 0..(MaxSize - 1)
HistDepths == 0..1

RECURSIVE SeqsUpTo(_, _)
SeqsUpTo(S, n) ==
    IF n = 0 THEN {<<>>}
    ELSE LET shorter == SeqsUpTo(S, n - 1)
         IN  shorter \cup {Append(s, x) : s \in shorter, x \in S}

Contents == SeqsUpTo({"a", LF}, MaxSize)
SearchTerms == {<<>>, <<"a">>}
ReplaceTerms == {<<>>, <<"a">>}

\* the document and the history stay within the model's bounds
RECURSIVE TotalLen(_)
TotalLen(ls) == IF ls = <<>> THEN 0 ELSE Len(Head(ls)) + TotalLen(Tail(ls))

Fits(b) ==
    /\ Len(b.lines) + TotalLen(b.lines) <= MaxSize
    /\ Len(b.undo_stack) \in HistDepths

MutatingOps == {"insert_char", "delete_char", "insert_newline", "delete_line",
                "join_lines", "replace_text"}

\* the history variables after the buffer call `name` that yields buffer b
Called(name, b) ==
    /\ pc = "new"
    /\ buffer' = b
    /\ action' = name
    /\ phase' = IF name = "undo" THEN "undone"
                ELSE IF /\ name \in MutatingOps
                        /\ b.lines # buffer.lines
                        /\ phase \in {"undone", "edited"}
                     THEN "edited"
                     ELSE phase
    /\ UNCHANGED sessionVars

BufLoad == \E content \in Contents :
    /\ Fits(load_from_string(buffer, content))
    /\ Called("load_from_string", load_from_string(buffer, content))

BufInsertChar == \E row \in Rows, col \in Cols, ch \in Chars :
    /\ Fits(insert_char(buffer, row, col, ch))
    /\ Called("insert_char", insert_char(buffer, row, col, ch))

BufDeleteChar == \E row \in Rows, col \in Cols :
    /\ Fits(delete_char(buffer, row, col))
    /\ Called("delete_char", delete_char(buffer, row, col))

BufInsertNewline == \E row \in Rows, col \in Cols :
    /\ Fits(insert_newline(buffer, row, col))
    /\ Called("insert_newline", insert_newline(buffer, row, col))

BufDeleteLine == \E row \in Rows :
    /\ Fits(delete_line(buffer, row))
    /\ Called("delete_line", delete_line(buffer, row))

BufJoinLines == \E row \in Rows :
    /\ Fits(join_lines(buffer, row))
    /\ Called("join_lines", join_lines(buffer, row))

BufReplaceText == \E search_term \in SearchTerms, replace_term \in ReplaceTerms :
    /\ Fits(replace_text(buffer, search_term, replace_term))
    /\ Called("replace_text", replace_text(buffer, search_term, replace_term))

BufUndo ==
    /\ Fits(undo(buffer).buf)
    /\ Called("undo", undo(buffer).buf)

BufRedo ==
    /\ Fits(redo(buffer).buf)
    /\ Called("redo", redo(buffer).buf)

NextBuf ==
    \/ BufLoad
    \/ BufInsertChar
    \/ BufDeleteChar
    \/ BufInsertNewline
    \/ BufDeleteLine
    \/ BufJoinLines
    \/ BufReplaceText
    \/ BufUndo
    \/ BufRedo

SpecBuf == Init /\ [][NextBuf]_vars

----------------------------------------------------------------------------
(* Claims about the TextBuffer.                                            *)

\* C1: after any sequence of TextBuffer operations, with any row and column
\* arguments, the document has at least one line: line_count() >= 1.
C1_LineCountAtLeastOne == line_count(buffer) >= 1

\* C1 witness: delete_line has just removed the only line, a non-empty one,
\* and the document is the single empty line.
C1_Witness ==
    /\ action = "delete_line"
    /\ buffer.lines = << <<>> >>
    /\ buffer.undo_stack # <<>>
    /\ LET before == buffer.undo_stack[Len(buffer.undo_stack)].lines
       IN  Len(before) = 1 /\ before # << <<>> >>

\* every call of a mutating operation on buffer b: the buffers after it
EditsOf(b) ==
    {insert_char(b, row, col, ch) : row \in Rows, col \in Cols, ch \in Chars}
    \cup {delete_char(b, row, col) : row \in Rows, col \in Cols}
    \cup {insert_newline(b, row, col) : row \in Rows, col \in Cols}
    \cup {delete_line(b, row) : row \in Rows}
    \cup {join_lines(b, row) : row \in Rows}
    \cup {replace_text(b, st, rt) : st \in SearchTerms, rt \in ReplaceTerms}

\* C2: in every reachable buffer state, after any single mutating operation
\* that changes the lines, undo() returns true and restores the lines as
\* they were before the operation, and a redo() right after that undo gives
\* back the lines as they were after the operation.
C2_UndoRedoRoundTrip ==
    \A after \in EditsOf(buffer) :
        after.lines # buffer.lines =>
            LET u == undo(after)
                r == redo(u.buf)
            IN  /\ u.ok
                /\ u.buf.lines = buffer.lines
                /\ r.buf.lines = after.lines

\* C3: once an undo() has been followed by a mutating operation that changed
\* the document, the redo stack is empty, so that redo() returns false and
\* leaves the buffer unchanged until the next undo().
C3_EditAfterUndoKillsRedo ==
    phase = "edited" =>
        /\ buffer.redo_stack = <<>>
        /\ ~redo(buffer).ok
        /\ redo(buffer).buf = buffer

----------------------------------------------------------------------------
(* SpecCap: one line typed character by character at its start, with undo  *)
(* and redo interleaved at will, long enough to fill the undo stack.       *)

MaxTyped == 102    \* characters typed into the line

CapType ==
    /\ Len(buffer.lines[1]) < MaxTyped
    /\ Called("insert_char", insert_char(buffer, 0, 0, "a"))

CapUndo == Called("undo", undo(buffer).buf)

CapRedo == Called("redo", redo(buffer).buf)

NextCap ==
    \/ CapType
    \/ CapUndo
    \/ CapRedo

SpecCap == Init /\ [][NextCap]_vars

\* C4: the undo stack never holds more than 100 entries, whatever the
\* interleaving of edits, undo() and redo(); an edit recorded while it holds
\* 100 entries removes the oldest entry and keeps the other 99 in order,
\* below the new one.
C4_UndoStackCapped ==
    /\ [](Len(buffer.undo_stack) <= max_undo_levels)
    /\ [][(action' = "insert_char"
             /\ Len(buffer.undo_stack) = max_undo_levels)
           => /\ Len(buffer'.undo_stack) = max_undo_levels
              /\ SubSeq(buffer'.undo_stack, 1, max_undo_levels - 1)
                     = Tail(buffer.undo_stack)
              /\ buffer'.undo_stack[max_undo_levels].lines = buffer.lines]_vars

\* C4 witness: an edit was recorded on a full stack: the stack holds 100
\* entries and its oldest entry is no longer the empty first document.
C4_Witness ==
    /\ action = "insert_char"
    /\ Len(buffer.undo_stack) = max_undo_levels
    /\ buffer.undo_stack[1].lines # << <<>> >>

----------------------------------------------------------------------------
(* WritersEditor (editor/editor.rs): operators from an editor record e     *)
(* (the fields of the session, plus `failed` for a call that returned Err  *)
(* and `action` for the arm that was dispatched) to the record after the   *)
(* call.                                                                   *)

Key(code) == [code |-> code, ctrl |-> FALSE]
Ctrl(code) == [code |-> code, ctrl |-> TRUE]

\* KeyCode variants other than KeyCode::Char
NamedCodes == {"None", "Esc", "Enter", "Backspace", "Delete", "Tab", "Left",
               "Right", "Up", "Down", "PageUp", "PageDown", "F3", "Home",
               "End"}

IsChar(code) == code \notin NamedCodes

DoubleKeyMs == 500
TabWidth == 4

WarnNavigation ==
    "File has unsaved changes. Press Ctrl+Q again to quit without saving, or Ctrl+S to save first"
WarnInsert == "File has unsaved changes. Save first with Ctrl+S"

Did(e, name) == [e EXCEPT !.action = name]

mark_dirty(e) == [e EXCEPT !.is_dirty = TRUE]

\* save_file; write_ok is whether fs::write succeeds
save_file(e, write_ok) ==
    IF e.buffer.file_path # "None"
    THEN IF write_ok
         THEN [e EXCEPT !.is_dirty = FALSE,
                        !.status_message = "Saved: draft.md"]
         ELSE [e EXCEPT !.failed = TRUE]
    ELSE [e EXCEPT !.status_message = "No file path set"]

ed_insert_char(e, ch) ==
    LET b == insert_char(e.buffer, e.cursor.row, e.cursor.col, ch)
    IN  mark_dirty([e EXCEPT !.buffer = b, !.cursor = move_right(e.cursor, b)])

ed_insert_newline(e) ==
    LET b == insert_newline(e.buffer, e.cursor.row, e.cursor.col)
        c == move_down(e.cursor, b)
    IN  mark_dirty([e EXCEPT !.buffer = b, !.cursor = [c EXCEPT !.col = 0]])

backspace(e) ==
    mark_dirty(
        IF e.cursor.col > 0
        THEN LET c == move_left(e.cursor)
             IN  [e EXCEPT !.cursor = c,
                           !.buffer = delete_char(e.buffer, c.row, c.col)]
        ELSE IF e.cursor.row > 0
        THEN LET line_len == get_line_length(e.buffer, e.cursor.row - 1)
                 b == join_lines(e.buffer, e.cursor.row - 1)
                 c == move_up(e.cursor)
             IN  [e EXCEPT !.buffer = b, !.cursor = [c EXCEPT !.col = line_len]]
        ELSE e)

ed_delete_char(e) ==
    mark_dirty([e EXCEPT !.buffer =
                    delete_char(e.buffer, e.cursor.row, e.cursor.col)])

ed_delete_line(e) ==
    LET b   == delete_line(e.buffer, e.cursor.row)
        row == IF e.cursor.row >= line_count(b) /\ line_count(b) > 0
               THEN line_count(b) - 1 ELSE e.cursor.row
    IN  mark_dirty([e EXCEPT !.buffer = b,
                             !.cursor = [e.cursor EXCEPT !.row = row,
                                                         !.col = 0]])

RECURSIVE insert_spaces(_, _)
insert_spaces(e, n) ==
    IF n = 0 THEN e ELSE insert_spaces(ed_insert_char(e, " "), n - 1)

insert_tab(e) == insert_spaces(e, TabWidth)

\* undo that restores the buffer without touching the dirty flag
ed_undo_keeps_flag(e) ==
    LET u == undo(e.buffer)
    IN  IF u.ok
        THEN [e EXCEPT !.buffer = u.buf, !.status_message = "Undo"]
        ELSE e

ed_undo(e) ==
    LET u == undo(e.buffer)
    IN  IF u.ok
        THEN [e EXCEPT !.buffer = u.buf, !.status_message = "Undo",
                       !.is_dirty = TRUE]
        ELSE e

ed_redo(e) ==
    LET r == redo(e.buffer)
    IN  IF r.ok
        THEN [e EXCEPT !.buffer = r.buf, !.status_message = "Redo",
                       !.is_dirty = TRUE]
        ELSE e

\* Screen::get_editor_height
get_editor_height(h) == Max(h - 3, 0)

page_size(e) == Max(get_editor_height(e.height) - 1, 0)

page_up(e) ==
    LET Up(c) == move_up(c)
    IN  [e EXCEPT !.cursor = Repeat(Up, page_size(e), e.cursor)]

page_down(e) ==
    LET Down(c) == move_down(c, e.buffer)
    IN  [e EXCEPT !.cursor = Repeat(Down, page_size(e), e.cursor)]

toggle_typewriter_mode(e) ==
    [e EXCEPT !.typewriter_mode = ~e.typewriter_mode,
              !.status_message = IF ~e.typewriter_mode
                                 THEN "Typewriter mode: ON"
                                 ELSE "Typewriter mode: OFF"]

toggle_distraction_free(e) ==
    [e EXCEPT !.distraction_free = ~e.distraction_free,
              !.status_message = IF ~e.distraction_free
                                 THEN "Distraction-free mode: ON"
                                 ELSE "Distraction-free mode: OFF"]

enter_search_mode(e) == [e EXCEPT !.status_message = "Search: "]

enter_insert(e) ==
    [e EXCEPT !.mode = "Insert", !.status_message = "-- INSERT --"]

\* the Ctrl+Q arm of handle_navigation_key
quit_navigation(e, is_double_key) ==
    IF e.is_dirty
    THEN LET w == [e EXCEPT !.status_message = WarnNavigation]
         IN  IF is_double_key
             THEN Did([w EXCEPT !.should_quit = TRUE], "quit")
             ELSE Did(w, "quit_warning")
    ELSE Did([e EXCEPT !.should_quit = TRUE], "quit")

\* a Ctrl+Q arm that never quits
quit_insert_warn_only(e) ==
    Did([e EXCEPT !.status_message = WarnInsert], "quit_warning")

\* the Ctrl+Q arm of handle_insert_key
quit_insert(e) ==
    IF e.is_dirty
    THEN Did([e EXCEPT !.status_message = WarnInsert], "quit_warning")
    ELSE Did([e EXCEPT !.should_quit = TRUE], "quit")

handle_navigation_key(e, key, is_double_key, write_ok) ==
    LET code == key.code
        c    == e.cursor
        b    == e.buffer
    IN  IF code = "q" /\ key.ctrl THEN quit_navigation(e, is_double_key)
        ELSE IF code = "s" /\ key.ctrl THEN Did(save_file(e, write_ok), "save")
        ELSE IF code = "z" /\ key.ctrl THEN Did(ed_undo(e), "undo")
        ELSE IF code = "y" /\ key.ctrl THEN Did(ed_redo(e), "redo")
        ELSE IF code = "t" /\ key.ctrl
             THEN Did(toggle_typewriter_mode(e), "toggle_typewriter")
        ELSE IF code = "F3"
             THEN Did(toggle_distraction_free(e), "toggle_distraction_free")
        ELSE IF code = "/" THEN Did(enter_search_mode(e), "search")
        ELSE IF code = "i" THEN Did(enter_insert(e), "insert_mode")
        ELSE IF code = "a"
             THEN Did(enter_insert([e EXCEPT !.cursor = move_right(c, b)]),
                      "insert_mode")
        ELSE IF code = "o"
             THEN Did(enter_insert(ed_insert_newline(
                          [e EXCEPT !.cursor = move_to_end_of_line(c, b)])),
                      "open_line")
        ELSE IF code = "0"
             THEN Did([e EXCEPT !.cursor = move_to_start_of_line(c)], "move")
        ELSE IF code = "$"
             THEN Did([e EXCEPT !.cursor = move_to_end_of_line(c, b)], "move")
        ELSE IF code = "d" /\ is_double_key
             THEN Did(ed_delete_line(e), "delete_line")
        ELSE IF code \in {"h", "Left"}
             THEN Did([e EXCEPT !.cursor = move_left(c)], "move")
        ELSE IF code \in {"j", "s", "Down"}
             THEN Did([e EXCEPT !.cursor = move_down(c, b)], "move")
        ELSE IF code \in {"k", "w", "Up"}
             THEN Did([e EXCEPT !.cursor = move_up(c)], "move")
        ELSE IF code \in {"l", "Right"}
             THEN Did([e EXCEPT !.cursor = move_right(c, b)], "move")
        ELSE IF code = "A"
             THEN Did([e EXCEPT !.cursor = move_left(c)], "move")
        ELSE IF code = "S"
             THEN Did([e EXCEPT !.cursor = move_down(c, b)], "move")
        ELSE IF code = "W"
             THEN Did([e EXCEPT !.cursor = move_up(c)], "move")
        ELSE IF code = "D"
             THEN Did([e EXCEPT !.cursor = move_right(c, b)], "move")
        ELSE IF code = "PageUp" THEN Did(page_up(e), "move")
        ELSE IF code = "PageDown" THEN Did(page_down(e), "move")
        ELSE Did(e, "none")

handle_insert_key(e, key, write_ok) ==
    LET code == key.code
        c    == e.cursor
        b    == e.buffer
    IN  IF code = "Esc"
        THEN Did([e EXCEPT !.mode = "Navigation", !.status_message = "Ready"],
                 "navigation_mode")
        ELSE IF code = "s" /\ key.ctrl THEN Did(save_file(e, write_ok), "save")
        ELSE IF code = "q" /\ key.ctrl THEN quit_insert(e)
        ELSE IF IsChar(code) THEN Did(ed_insert_char(e, code), "insert_char")
        ELSE IF code = "Enter" THEN Did(ed_insert_newline(e), "insert_newline")
        ELSE IF code = "Backspace" THEN Did(backspace(e), "backspace")
        ELSE IF code = "Delete" THEN Did(ed_delete_char(e), "delete_char")
        ELSE IF code = "Tab" THEN Did(insert_tab(e), "insert_tab")
        ELSE IF code = "Left"
             THEN Did([e EXCEPT !.cursor = move_left(c)], "move")
        ELSE IF code = "Right"
             THEN Did([e EXCEPT !.cursor = move_right(c, b)], "move")
        ELSE IF code = "Up"
             THEN Did([e EXCEPT !.cursor = move_up(c)], "move")
        ELSE IF code = "Down"
             THEN Did([e EXCEPT !.cursor = move_down(c, b)], "move")
        ELSE Did(e, "none")

\* a chord test without the timing window
is_double_key_any_time(e, key, dt) ==
    e.last_key # NoKey /\ e.last_key.code = key.code

\* is_double_key of handle_key_event; dt is now - last_key_time in ms
is_double_key_of(e, key, dt) ==
    IF e.last_key # NoKey
    THEN dt < DoubleKeyMs /\ e.last_key.code = key.code
    ELSE FALSE

\* a handle_key_event that clears the chord memory when the dd chord fires
handle_key_event_forgets_chord(e, key, dt, write_ok) ==
    LET is_double_key == is_double_key_of(e, key, dt)
        r == IF e.mode = "Navigation"
             THEN handle_navigation_key(e, key, is_double_key, write_ok)
             ELSE handle_insert_key(e, key, write_ok)
    IN  IF r.failed THEN Did(r, "save_failed")
        ELSE IF r.action = "delete_line" THEN [r EXCEPT !.last_key = NoKey]
        ELSE [r EXCEPT !.last_key = key]

handle_key_event(e, key, dt, write_ok) ==
    LET is_double_key == is_double_key_of(e, key, dt)
        r == IF e.mode = "Navigation"
             THEN handle_navigation_key(e, key, is_double_key, write_ok)
             ELSE handle_insert_key(e, key, write_ok)
    IN  IF r.failed THEN Did(r, "save_failed") ELSE [r EXCEPT !.last_key = key]

----------------------------------------------------------------------------
(* Spec: the editor session, from launch() through the event loop of       *)
(* run() to the return of launch().                                        *)

\* ms since the last key, as handle_key_event can read them: 500 stands for
\* 500 ms or more
Elapsed == {0, 499, 500}

Heights == {24}

NavigationKeys ==
    {Ctrl("q"), Key("q"), Ctrl("s"), Ctrl("z"), Ctrl("y"), Key("i"), Key("o"),
     Key("d"), Ctrl("d"), Key("h"), Key("j"), Key("k"), Key("l"), Key("$")}

InsertKeys ==
    {Key("Esc"), Ctrl("q"), Ctrl("s"), Key("a"), Key("Enter"),
     Key("Backspace"), Key("Delete"), Key("Up"), Key("Down")}

KeysIn(m) == IF m = "Navigation" THEN NavigationKeys ELSE InsertKeys

KeyActions == {"quit", "quit_warning", "save", "undo", "redo",
               "toggle_typewriter", "toggle_distraction_free", "search",
               "insert_mode", "open_line", "move", "delete_line",
               "navigation_mode", "insert_char", "insert_newline",
               "backspace", "delete_char", "insert_tab", "none",
               "save_failed"}

\* the session as an editor record
Ed ==
    [buffer |-> buffer, cursor |-> cursor, height |-> height, mode |-> mode,
     should_quit |-> should_quit, status_message |-> status_message,
     is_dirty |-> is_dirty, typewriter_mode |-> typewriter_mode,
     distraction_free |-> distraction_free, last_key |-> last_key,
     action |-> action, failed |-> FALSE]

\* the session becomes the editor record e
Becomes(e) ==
    /\ buffer' = e.buffer
    /\ cursor' = e.cursor
    /\ height' = e.height
    /\ mode' = e.mode
    /\ should_quit' = e.should_quit
    /\ status_message' = e.status_message
    /\ is_dirty' = e.is_dirty
    /\ typewriter_mode' = e.typewriter_mode
    /\ distraction_free' = e.distraction_free
    /\ last_key' = e.last_key
    /\ action' = e.action

\* setup_terminal: fails without a tty, or after raw mode was entered
Setup ==
    /\ pc = "new"
    /\ \E outcome \in {"ok", "no_tty", "error"} :
          /\ pc' = IF outcome = "ok" THEN "open" ELSE "failed"
          /\ terminal' = IF outcome = "no_tty" THEN "cooked" ELSE "raw"
    /\ action' = "setup"
    /\ UNCHANGED <<buffer, cursor, height, mode, should_quit, status_message,
                   is_dirty, typewriter_mode, distraction_free, last_key,
                   elapsed, phase>>

\* launch without a path
OpenNothing ==
    /\ pc = "open"
    /\ pc' = "running"
    /\ action' = "open"
    /\ UNCHANGED <<buffer, cursor, height, mode, should_quit, status_message,
                   is_dirty, typewriter_mode, distraction_free, last_key,
                   elapsed, terminal, phase>>

\* open_file of a path that exists: read_to_string gives content, or fails
OpenExisting ==
    /\ pc = "open"
    /\ \/ \E content \in Contents :
             LET b == load_from_string(buffer, content)
             IN  /\ Fits(b)
                 /\ buffer' = [b EXCEPT !.file_path = "draft.md"]
                 /\ status_message' = "Opened: draft.md"
                 /\ is_dirty' = FALSE
                 /\ pc' = "running"
       \/ /\ pc' = "failed"
          /\ UNCHANGED <<buffer, status_message, is_dirty>>
    /\ action' = "open"
    /\ UNCHANGED <<cursor, height, mode, should_quit, typewriter_mode,
                   distraction_free, last_key, elapsed, terminal, phase>>

\* open_file of a path that does not exist
OpenNew ==
    /\ pc = "open"
    /\ buffer' = [buffer EXCEPT !.file_path = "draft.md"]
    /\ status_message' = "New file: draft.md"
    /\ is_dirty' = FALSE
    /\ pc' = "running"
    /\ action' = "open"
    /\ UNCHANGED <<cursor, height, mode, should_quit, typewriter_mode,
                   distraction_free, last_key, elapsed, terminal, phase>>

\* fs::write is reached only by Ctrl+S with a path set
WriteOutcomes(k) ==
    IF k = Ctrl("s") /\ buffer.file_path # "None" THEN BOOLEAN ELSE {TRUE}

\* one iteration of run(): render, poll and read a key event, handle it
KeyEvent ==
    /\ pc = "running"
    /\ ~should_quit
    /\ \E k \in KeysIn(mode) : \E write_ok \in WriteOutcomes(k) :
          LET e == handle_key_event(Ed, k, elapsed, write_ok)
          IN  /\ Fits(e.buffer)
              /\ Becomes(e)
              /\ elapsed' = IF e.failed THEN elapsed ELSE 0
              /\ pc' = IF e.failed THEN "failed" ELSE "running"
    /\ UNCHANGED <<terminal, phase>>

\* one iteration of run(): render, poll and read a resize event
ResizeEvent ==
    /\ pc = "running"
    /\ ~should_quit
    /\ \E h \in Heights : height' = h
    /\ action' = "resize"
    /\ UNCHANGED <<buffer, cursor, mode, should_quit, status_message, is_dirty,
                   typewriter_mode, distraction_free, last_key, elapsed, pc,
                   terminal, phase>>

\* iterations of run() in which poll finds no event: time passes
Idle ==
    /\ pc = "running"
    /\ ~should_quit
    /\ \E t \in Elapsed : t > elapsed /\ elapsed' = t
    /\ action' = "idle"
    /\ UNCHANGED <<buffer, cursor, height, mode, should_quit, status_message,
                   is_dirty, typewriter_mode, distraction_free, last_key, pc,
                   terminal, phase>>

\* an iteration of run() in which render, poll or read returns Err
LoopFails ==
    /\ pc = "running"
    /\ pc' = "failed"
    /\ action' = "error"
    /\ UNCHANGED <<buffer, cursor, height, mode, should_quit, status_message,
                   is_dirty, typewriter_mode, distraction_free, last_key,
                   elapsed, terminal, phase>>

\* the iteration of run() that finds should_quit set and breaks
QuitLoop ==
    /\ pc = "running"
    /\ should_quit
    /\ pc' = "cleanup"
    /\ action' = "exit"
    /\ UNCHANGED <<buffer, cursor, height, mode, should_quit, status_message,
                   is_dirty, typewriter_mode, distraction_free, last_key,
                   elapsed, terminal, phase>>

\* cleanup_terminal, then launch returns Ok
Cleanup ==
    /\ pc = "cleanup"
    /\ terminal' = "cooked"
    /\ pc' = "done"
    /\ action' = "cleanup"
    /\ UNCHANGED <<buffer, cursor, height, mode, should_quit, status_message,
                   is_dirty, typewriter_mode, distraction_free, last_key,
                   elapsed, phase>>

Next ==
    \/ Setup
    \/ OpenNothing
    \/ OpenExisting
    \/ OpenNew
    \/ KeyEvent
    \/ ResizeEvent
    \/ Idle
    \/ LoopFails
    \/ QuitLoop
    \/ Cleanup

Spec == Init /\ [][Next]_vars

----------------------------------------------------------------------------
(* Claims about the editor session                                         *)

\* the step handles a key event (every handler leaves its name in action)
KeyHandled == pc = "running" /\ action' \in KeyActions

\* the step handles the key event k to its end
Handled(k) == KeyHandled /\ action' # "save_failed" /\ last_key' = k

\* the key event of the step is the chord partner of the one before it
ChordPartner(k) ==
    last_key # NoKey /\ last_key.code = k.code /\ elapsed < DoubleKeyMs

\* C5: in every state of the session, once a key event has been handled,
\* the cursor is inside the buffer: cursor.row < line_count() and
\* cursor.col <= the length of line cursor.row.
C5_CursorInsideBuffer ==
    /\ cursor.row < line_count(buffer)
    /\ cursor.col <= get_line_length(buffer, cursor.row)

\* C6: while the dirty flag is true, should_quit is set only by a Ctrl+Q whose
\* immediately preceding key event was also a Ctrl+Q less than 500 ms
\* earlier; any other Ctrl+Q only sets the warning status message.
C6_DirtyQuitNeedsDoubleCtrlQ ==
    [][(is_dirty /\ ~should_quit /\ should_quit')
          => /\ Handled(Ctrl("q"))
             /\ last_key = Ctrl("q")
             /\ elapsed < DoubleKeyMs]_vars

\* C7: in either mode, when the buffer is dirty, the second of two
\* consecutive Ctrl+Q key events less than 500 ms apart sets should_quit.
C7_DoubleCtrlQForcesQuit ==
    [][(is_dirty /\ Handled(Ctrl("q")) /\ last_key = Ctrl("q")
          /\ elapsed < DoubleKeyMs)
          => should_quit']_vars

\* C8: in either mode a Ctrl+Q handled while the dirty flag is false sets
\* should_quit; once set, should_quit is never reset, no further key or
\* resize event is handled, and the event loop exits at its next iteration.
C8_CleanQuit ==
    /\ [][(~is_dirty /\ Handled(Ctrl("q"))) => should_quit']_vars
    /\ [][should_quit
            => /\ should_quit'
               /\ action' \notin KeyActions \cup {"resize", "idle"}
               /\ pc = "running" => pc' \in {"cleanup", "failed"}
               /\ UNCHANGED <<buffer, cursor, height, mode, last_key,
                              is_dirty, status_message>>]_vars

\* C8 witness: a clean Ctrl+Q in Insert mode has set should_quit and the
\* loop has exited.
C8_Witness ==
    /\ should_quit
    /\ ~is_dirty
    /\ mode = "Insert"
    /\ last_key = Ctrl("q")
    /\ pc \in {"cleanup", "done"}

\* C9: in Navigation mode a key event with code 'd' triggers the delete-line
\* action if and only if the immediately preceding key event had the key code
\* 'd' and arrived less than 500 ms earlier; otherwise (a 'd' 500 ms or more
\* after the previous 'd', a 'd' after a different key, the first key of the
\* session) the document is unchanged.
C9_DeleteLineChord ==
    [][(mode = "Navigation" /\ (Handled(Key("d")) \/ Handled(Ctrl("d"))))
          => /\ (action' = "delete_line") <=> ChordPartner(last_key')
             /\ action' = "delete_line"
                  => buffer'.lines = delete_line(buffer, cursor.row).lines
             /\ action' # "delete_line"
                  => buffer' = buffer /\ is_dirty' = is_dirty]_vars

\* C9 witness: dd has removed a line of a two-line document.
C9_Witness ==
    /\ action = "delete_line"
    /\ last_key = Key("d")
    /\ mode = "Navigation"
    /\ Len(buffer.undo_stack) > 0
    /\ Len(buffer.undo_stack[Len(buffer.undo_stack)].lines) = 2
    /\ Len(buffer.lines) = 1

\* C10: when the write fails during a Ctrl+S save, the session continues:
\* should_quit stays false, the loop keeps running in the same mode, the
\* document and its undo/redo history are unchanged and the dirty flag keeps
\* its value.
C10_SaveFailureKeepsSession ==
    [][(pc = "running" /\ action' = "save_failed")
          => /\ pc' = "running"
             /\ ~should_quit'
             /\ mode' = mode
             /\ buffer' = buffer
             /\ is_dirty' = is_dirty]_vars

\* C11: on every execution of launch in which setup_terminal succeeded,
\* cleanup_terminal has been performed when launch returns, whether the loop
\* exits through should_quit or through an error in open_file, render, event
\* polling or reading, or save.
C11_TerminalRestoredOnReturn ==
    (pc \in {"done", "failed"} /\ action # "setup") => terminal = "cooked"

----------------------------------------------------------------------------
(* SpecModes: the session under the Ctrl-modified keys and F3, pressed in  *)
(* both modes.                                                             *)

ModeKeys ==
    {Key("i"), Key("Esc"), Key("a"), Ctrl("z"), Ctrl("y"), Ctrl("t"),
     Key("F3")}

\* one iteration of run() that reads and handles one of the ModeKeys
ModeKeyEvent ==
    /\ pc = "running"
    /\ ~should_quit
    /\ \E k \in ModeKeys :
          LET e == handle_key_event(Ed, k, elapsed, TRUE)
          IN  /\ Fits(e.buffer)
              /\ Becomes(e)
              /\ elapsed' = 0
              /\ pc' = "running"
    /\ UNCHANGED <<terminal, phase>>

NextModes ==
    \/ Setup
    \/ OpenNothing
    \/ ModeKeyEvent
    \/ Idle

SpecModes == Init /\ [][NextModes]_vars

\* C12: Ctrl+Z and Ctrl+Y have the same effect in Insert mode as in
\* Navigation mode: Ctrl+Z performs the buffer undo, Ctrl+Y the buffer redo,
\* and neither inserts a character into the document.
C12_UndoRedoKeysInBothModes ==
    [][/\ Handled(Ctrl("z")) => buffer' = undo(buffer).buf
       /\ Handled(Ctrl("y")) => buffer' = redo(buffer).buf]_vars

\* C13: in both modes a Ctrl+T key event flips only the typewriter flag and
\* an F3 key event flips only the distraction-free flag (plus the status
\* message); lines, undo and redo stacks, cursor, mode and dirty flag are
\* unchanged.
C13_TogglesTouchOnlyTheirFlag ==
    [][/\ Handled(Ctrl("t"))
            => /\ typewriter_mode' = ~typewriter_mode
               /\ UNCHANGED <<buffer, cursor, mode, is_dirty,
                              distraction_free>>
       /\ Handled(Key("F3"))
            => /\ distraction_free' = ~distraction_free
               /\ UNCHANGED <<buffer, cursor, mode, is_dirty,
                              typewriter_mode>>]_vars

----------------------------------------------------------------------------
(* SpecText: the TextBuffer over documents with a multi-byte character.    *)

\* String::insert, String::remove and str::split_at panic when the byte index
\* is not on a char boundary
insert_char_panics(b, row, col, ch) ==
    LET line == IF row < Len(b.lines) THEN b.lines[row + 1] ELSE <<>>
    IN  ~is_char_boundary(line, Min(col, Len(line)))

delete_char_panics(b, row, col) ==
    /\ row < Len(b.lines)
    /\ col < Len(b.lines[row + 1])
    /\ ~is_char_boundary(b.lines[row + 1], col)

insert_newline_panics(b, row, col) ==
    /\ row < Len(b.lines)
    /\ ~is_char_boundary(b.lines[row + 1], Min(col, Len(b.lines[row + 1])))

TextChars == {"a", EAcute}

RECURSIVE Encode(_)
Encode(cs) == IF cs = <<>> THEN <<>> ELSE Utf8(Head(cs)) \o Encode(Tail(cs))

\* file contents: the UTF-8 strings of at most MaxSize bytes
TextContents ==
    {bs \in {Encode(cs) : cs \in SeqsUpTo(TextChars \cup {LF}, MaxSize)} :
        Len(bs) <= MaxSize}

\* the call panics: the thread unwinds with the buffer as the call left it
Panicked(name, b) ==
    /\ pc = "new"
    /\ pc' = "panicked"
    /\ buffer' = b
    /\ action' = name
    /\ UNCHANGED <<cursor, height, mode, should_quit, status_message,
                   is_dirty, typewriter_mode, distraction_free, last_key,
                   elapsed, terminal, phase>>

TextLoad ==
    \E content \in TextContents :
        /\ Fits(load_from_string(buffer, content))
        /\ Called("load_from_string", load_from_string(buffer, content))

TextInsertChar ==
    \E row \in Rows, col \in Cols, ch \in TextChars :
        IF insert_char_panics(buffer, row, col, ch)
        THEN Panicked("insert_char", save_state(buffer, row, col))
        ELSE /\ Fits(insert_char(buffer, row, col, ch))
             /\ Called("insert_char", insert_char(buffer, row, col, ch))

TextDeleteChar ==
    \E row \in Rows, col \in Cols :
        IF delete_char_panics(buffer, row, col)
        THEN Panicked("delete_char", save_state(buffer, row, col))
        ELSE /\ Fits(delete_char(buffer, row, col))
             /\ Called("delete_char", delete_char(buffer, row, col))

TextInsertNewline ==
    \E row \in Rows, col \in Cols :
        IF insert_newline_panics(buffer, row, col)
        THEN Panicked("insert_newline", save_state(buffer, row, col))
        ELSE /\ Fits(insert_newline(buffer, row, col))
             /\ Called("insert_newline", insert_newline(buffer, row, col))

TextJoinLines ==
    \E row \in Rows :
        /\ Fits(join_lines(buffer, row))
        /\ Called("join_lines", join_lines(buffer, row))

TextUndo ==
    /\ Fits(undo(buffer).buf)
    /\ Called("undo", undo(buffer).buf)

NextText ==
    \/ TextLoad
    \/ TextInsertChar
    \/ TextDeleteChar
    \/ TextInsertNewline
    \/ TextJoinLines
    \/ TextUndo

SpecText == Init /\ [][NextText]_vars

\* C14: for every document, every row < line_count() and every col with
\* 0 <= col <= length of line row, insert_newline(row, col) followed
\* immediately by join_lines(row) leaves all lines equal to the document
\* before the two calls.
C14_NewlineJoinRoundTrip ==
    pc = "new" =>
        \A row \in 0..(line_count(buffer) - 1) :
            \A col \in 0..get_line_length(buffer, row) :
                /\ ~insert_newline_panics(buffer, row, col)
                /\ join_lines(insert_newline(buffer, row, col), row).lines
                       = buffer.lines

\* C19: delete_char(row, col) with row >= line_count() or col >= length of
\* line row is a no-op on the whole buffer state: lines, undo stack and redo
\* stack are unchanged.
C19_DeleteCharOutOfRangeIsNoOp ==
    pc = "new" =>
        \A row \in 0..MaxSize, col \in 0..MaxSize :
            (row >= line_count(buffer) \/ col >= get_line_length(buffer, row))
                => delete_char(buffer, row, col) = buffer

\* C20: for every document, row, col and character ch, insert_char never
\* fails and yields max(old line count, row+1) lines in which line row is the
\* old line row (empty if it did not exist) with ch inserted at
\* min(col, its length), added lines are empty, every other line is
\* unchanged, and the top of the undo stack is the document before the call.
C20_InsertCharContract ==
    pc = "new" =>
        \A row \in 0..MaxSize, col \in 0..MaxSize, ch \in TextChars :
            LET old   == buffer.lines
                line  == IF row < Len(old) THEN old[row + 1] ELSE <<>>
                at    == Min(col, Len(line))
                after == insert_char(buffer, row, col, ch)
            IN  /\ ~insert_char_panics(buffer, row, col, ch)
                /\ Len(after.lines) = Max(Len(old), row + 1)
                /\ after.lines[row + 1]
                       = SubSeq(line, 1, at) \o Utf8(ch)
                           \o SubSeq(line, at + 1, Len(line))
                /\ \A i \in 1..Len(after.lines) :
                       i # row + 1 =>
                           after.lines[i]
                               = IF i <= Len(old) THEN old[i] ELSE <<>>
                /\ after.undo_stack # <<>>
                /\ after.undo_stack[Len(after.undo_stack)].lines = old

----------------------------------------------------------------------------
(* SpecCursor: the Cursor moving over a loaded document.                   *)

\* char::is_whitespace, on the characters of the model
is_whitespace(ch) == ch = " "

\* the loops `while pos > 0 && chars[pos].is_whitespace() == ws { pos -= 1 }`
RECURSIVE SkipLeft(_, _, _)
SkipLeft(chs, pos, ws) ==
    IF pos > 0 /\ is_whitespace(chs[pos + 1]) = ws
    THEN SkipLeft(chs, pos - 1, ws)
    ELSE pos

\* the loops `while pos < chars.len() && chars[pos].is_whitespace() == ws`
RECURSIVE SkipRight(_, _, _)
SkipRight(chs, pos, ws) ==
    IF pos < Len(chs) /\ is_whitespace(chs[pos + 1]) = ws
    THEN SkipRight(chs, pos + 1, ws)
    ELSE pos

get_line(b, row) == IF row < Len(b.lines) THEN b.lines[row + 1] ELSE <<>>

\* chars[pos] of move_word_left indexes past the end of the Vec<char>; the
\* first index read is the largest one
move_word_left_panics(c, b) ==
    /\ c.col > 0
    /\ c.col - 1 > 0
    /\ c.col - 1 >= Len(chars(get_line(b, c.row)))

move_word_left(c, b) ==
    IF c.col = 0
    THEN IF c.row > 0
         THEN LET col == get_line_length(b, c.row - 1)
              IN  [row |-> c.row - 1, col |-> col, preferred_col |-> col]
         ELSE c
    ELSE LET chs  == chars(get_line(b, c.row))
             p1   == SkipLeft(chs, c.col - 1, TRUE)
             p2   == SkipLeft(chs, p1, FALSE)
             pos  == IF p2 > 0 /\ is_whitespace(chs[p2 + 1])
                     THEN p2 + 1 ELSE p2
         IN  [c EXCEPT !.col = pos, !.preferred_col = pos]

move_word_right(c, b) ==
    LET line_len == Len(get_line(b, c.row))
    IN  IF c.col >= line_len
        THEN IF c.row < Max(line_count(b) - 1, 0)
             THEN [row |-> c.row + 1, col |-> 0, preferred_col |-> 0]
             ELSE c
        ELSE LET chs == chars(get_line(b, c.row))
                 p1  == SkipRight(chs, c.col, FALSE)
                 p2  == SkipRight(chs, p1, TRUE)
                 col == Min(p2, line_len)
             IN  [c EXCEPT !.col = col, !.preferred_col = col]

move_to_position(row, col, b) ==
    LET r == Min(row, Max(line_count(b) - 1, 0))
        c == Min(col, get_line_length(b, r))
    IN  [row |-> r, col |-> c, preferred_col |-> c]

\* the cursor is inside the buffer
InBounds(c, b) == c.row < line_count(b) /\ c.col <= get_line_length(b, c.row)

MaxCursorDoc == 5    \* lines plus bytes of the document under the cursor

CursorContents ==
    {bs \in {Encode(cs) :
                cs \in SeqsUpTo({"a", " ", EAcute, LF}, MaxCursorDoc)} :
        Len(bs) <= MaxCursorDoc}

FitsCursor(b) == Len(b.lines) + TotalLen(b.lines) <= MaxCursorDoc

\* a cursor method has run
Moved(name, c) ==
    /\ pc = "new"
    /\ action # "new"
    /\ cursor' = c
    /\ action' = name
    /\ UNCHANGED <<buffer, height, mode, should_quit, status_message,
                   is_dirty, typewriter_mode, distraction_free, last_key,
                   elapsed, pc, terminal, phase>>

\* the document the cursor moves over is loaded first
CurLoad ==
    /\ action = "new"
    /\ \E content \in CursorContents :
          /\ FitsCursor(load_from_string(buffer, content))
          /\ Called("load_from_string", load_from_string(buffer, content))

CurPlace ==
    \E row \in 0..(MaxCursorDoc - 1), col \in 0..(MaxCursorDoc - 1) :
        Moved("move_to_position", move_to_position(row, col, buffer))

CurLeft == Moved("move_left", move_left(cursor))

CurRight == Moved("move_right", move_right(cursor, buffer))

CurUp == Moved("move_up", move_up(cursor))

CurDown == Moved("move_down", move_down(cursor, buffer))

CurWordLeft ==
    IF move_word_left_panics(cursor, buffer)
    THEN /\ action # "new"
         /\ Panicked("move_word_left", buffer)
    ELSE Moved("move_word_left", move_word_left(cursor, buffer))

CurWordRight == Moved("move_word_right", move_word_right(cursor, buffer))

NextCursor ==
    \/ CurLoad
    \/ CurPlace
    \/ CurLeft
    \/ CurRight
    \/ CurUp
    \/ CurDown
    \/ CurWordLeft
    \/ CurWordRight

SpecCursor == Init /\ [][NextCursor]_vars

\* C15: for every document and every in-bounds cursor position, boundaries
\* included, move_word_right followed by move_word_left ends at an in-bounds
\* position whose column is <= the original column, and neither call indexes
\* outside the line.
C15_WordRightThenLeft ==
    (pc = "new" /\ InBounds(cursor, buffer)) =>
        LET r == move_word_right(cursor, buffer)
            l == move_word_left(r, buffer)
        IN  /\ ~move_word_left_panics(r, buffer)
            /\ InBounds(l, buffer)
            /\ l.col <= cursor.col

\* C16: for every document and in-bounds cursor, a vertical move that changes
\* the row (move_up with row > 0, move_down with row < last row) leaves
\* preferred_col unchanged and sets col to min(preferred_col, length of the
\* destination line).
C16_VerticalMoveClampsToPreferred ==
    [][(action' \in {"move_up", "move_down"} /\ InBounds(cursor, buffer)
          /\ cursor'.row # cursor.row)
          => /\ cursor'.preferred_col = cursor.preferred_col
             /\ cursor'.col = Min(cursor.preferred_col,
                                  get_line_length(buffer, cursor'.row))]_vars

\* the line next to the cursor's, in direction d, is shorter than the cursor's
ShorterAt(c, d) ==
    /\ c.row + d >= 0
    /\ c.row + d < line_count(buffer)
    /\ get_line_length(buffer, c.row + d) < get_line_length(buffer, c.row)

\* C17: from an in-bounds cursor with col = preferred_col, moving vertically
\* onto an adjacent shorter line and then back (down then up, or up then
\* down) returns the cursor to the original row and the original column.
C17_ThroughShortLineAndBack ==
    [][(InBounds(cursor, buffer) /\ cursor.col = cursor.preferred_col)
          => /\ (action' = "move_down" /\ ShorterAt(cursor, 1))
                  => /\ cursor'.row = cursor.row + 1
                     /\ move_up(cursor').row = cursor.row
                     /\ move_up(cursor').col = cursor.col
             /\ (action' = "move_up" /\ ShorterAt(cursor, -1))
                  => /\ cursor'.row = cursor.row - 1
                     /\ move_down(cursor', buffer).row = cursor.row
                     /\ move_down(cursor', buffer).col = cursor.col]_vars

\* C17 witness: move_down has taken the cursor from its column on a long
\* line onto the shorter line below, where the column is clamped and the
\* preferred column still holds the original one.
C17_Witness ==
    /\ action = "move_down"
    /\ cursor.row > 0
    /\ cursor.col < cursor.preferred_col
    /\ cursor.col = get_line_length(buffer, cursor.row)
    /\ cursor.preferred_col <= get_line_length(buffer, cursor.row - 1)

----------------------------------------------------------------------------
(* SpecTyping: the session typing into and deleting from a loaded          *)
(* document that may hold a multi-byte character.                          *)

TypingKeys ==
    {Key("i"), Key("Esc"), Key("a"), Key(EAcute), Key("Enter"),
     Key("Backspace"), Key("Left"), Key("Right"), Key("Up"), Key("Down"),
     Ctrl("z")}

\* the buffer call made for the key panics inside handle_insert_key
key_event_panics(e, key) ==
    LET r == e.cursor.row
        c == e.cursor.col
    IN  /\ e.mode = "Insert"
        /\ key.code # "Esc"
        /\ ~(key.ctrl /\ key.code \in {"s", "q"})
        /\ \/ IsChar(key.code) /\ insert_char_panics(e.buffer, r, c, key.code)
           \/ key.code = "Enter" /\ insert_newline_panics(e.buffer, r, c)
           \/ key.code = "Backspace" /\ c > 0
                /\ delete_char_panics(e.buffer, r, c - 1)
           \/ key.code = "Delete" /\ delete_char_panics(e.buffer, r, c)

\* the name handle_insert_key's arm for the key leaves in action
InsertArm(key) ==
    IF key.code = "Enter" THEN "insert_newline"
    ELSE IF key.code = "Backspace" THEN "backspace"
    ELSE IF key.code = "Delete" THEN "delete_char"
    ELSE "insert_char"

MaxTypingDoc == 4    \* lines plus bytes of the document typed into

FitsTyping(b) ==
    /\ Len(b.lines) + TotalLen(b.lines) <= MaxTypingDoc
    /\ Len(b.undo_stack) \in HistDepths

\* open_file of an existing file that is read without error
OpenText ==
    /\ pc = "open"
    /\ \E content \in CursorContents :
          LET b == load_from_string(buffer, content)
          IN  /\ FitsTyping(b)
              /\ buffer' = [b EXCEPT !.file_path = "draft.md"]
    /\ status_message' = "Opened: draft.md"
    /\ is_dirty' = FALSE
    /\ pc' = "running"
    /\ action' = "open"
    /\ UNCHANGED <<cursor, height, mode, should_quit, typewriter_mode,
                   distraction_free, last_key, elapsed, terminal, phase>>

\* one iteration of run() that reads and handles one of the TypingKeys
TypingKeyEvent ==
    /\ pc = "running"
    /\ ~should_quit
    /\ \E k \in TypingKeys :
          IF key_event_panics(Ed, k)
          THEN /\ pc' = "panicked"
               /\ action' = InsertArm(k)
               /\ UNCHANGED <<buffer, cursor, height, mode, should_quit,
                              status_message, is_dirty, typewriter_mode,
                              distraction_free, last_key, elapsed>>
          ELSE LET e == handle_key_event(Ed, k, elapsed, TRUE)
               IN  /\ FitsTyping(e.buffer)
                   /\ Becomes(e)
                   /\ elapsed' = 0
                   /\ pc' = "running"
    /\ UNCHANGED <<terminal, phase>>

NextTyping ==
    \/ Setup
    \/ OpenText
    \/ TypingKeyEvent

SpecTyping == Init /\ [][NextTyping]_vars

\* C18: in Insert mode with an in-bounds cursor (r, c), Backspace with c > 0
\* removes exactly the character at column c-1 of line r and leaves the
\* cursor at (r, c-1); Backspace with c = 0 and r > 0 replaces lines r-1 and
\* r by their concatenation and leaves the cursor at (r-1, former length of
\* line r-1); every other line is unchanged.
C18_Backspace ==
    [][(pc = "running" /\ mode = "Insert" /\ InBounds(cursor, buffer)
          /\ action' = "backspace")
          => LET r   == cursor.row
                 c   == cursor.col
                 old == buffer.lines
             IN  /\ pc' = "running"
                 /\ c > 0
                      => /\ buffer'.lines
                               = [old EXCEPT ![r + 1] = StrRemove(@, c - 1)]
                         /\ cursor'.row = r
                         /\ cursor'.col = c - 1
                 /\ (c = 0 /\ r > 0)
                      => /\ buffer'.lines
                               = SubSeq(old, 1, r - 1)
                                   \o <<old[r] \o old[r + 1]>>
                                   \o SubSeq(old, r + 2, Len(old))
                         /\ cursor'.row = r - 1
                         /\ cursor'.col = Len(old[r])]_vars

----------------------------------------------------------------------------
(* SpecRender: the frames render() draws while the cursor moves over a     *)
(* loaded document on a small terminal.                                    *)

\* a scroll_y that leaves the cursor row one below the window
scroll_y_one_short(typewriter, row, editor_height) ==
    IF typewriter
    THEN LET center_line == editor_height \div 2
         IN  IF row >= center_line THEN row - center_line ELSE 0
    ELSE IF row >= editor_height THEN row - editor_height ELSE 0

\* scroll_y of render, from the typewriter flag, the cursor row and the
\* editor height
scroll_y(typewriter, row, editor_height) ==
    IF typewriter
    THEN LET center_line == editor_height \div 2
         IN  IF row >= center_line THEN row - center_line ELSE 0
    ELSE IF row >= editor_height THEN row - editor_height + 1 ELSE 0

\* editor_height of render and of page_up / page_down
editor_height(h) == get_editor_height(h)

MaxViewDoc == 5    \* lines plus bytes of the document viewed

\* terminal heights read by Screen::initialize
ViewHeights == {2, 4, 5}

ViewContents == SeqsUpTo({"a", " ", LF}, MaxViewDoc)

ViewKeys ==
    {Key("j"), Key("k"), Key("w"), Key("b"), Key("l"), Key("PageDown"),
     Ctrl("t"), Key("F3")}

\* setup_terminal succeeds; Screen::initialize reads the terminal size
SetupSized ==
    /\ pc = "new"
    /\ \E h \in ViewHeights : height' = h
    /\ terminal' = "raw"
    /\ pc' = "open"
    /\ action' = "setup"
    /\ UNCHANGED <<buffer, cursor, mode, should_quit, status_message,
                   is_dirty, typewriter_mode, distraction_free, last_key,
                   elapsed, phase>>

\* open_file of an existing file that is read without error
OpenView ==
    /\ pc = "open"
    /\ \E content \in ViewContents :
          LET b == load_from_string(buffer, content)
          IN  /\ Len(b.lines) + TotalLen(b.lines) <= MaxViewDoc
              /\ buffer' = [b EXCEPT !.file_path = "draft.md"]
    /\ status_message' = "Opened: draft.md"
    /\ is_dirty' = FALSE
    /\ pc' = "running"
    /\ action' = "open"
    /\ UNCHANGED <<cursor, height, mode, should_quit, typewriter_mode,
                   distraction_free, last_key, elapsed, terminal, phase>>

\* one iteration of run(): the frame is drawn, then one of the ViewKeys is
\* read and handled
ViewKeyEvent ==
    /\ pc = "running"
    /\ ~should_quit
    /\ \E k \in ViewKeys :
          LET e == handle_key_event(Ed, k, elapsed, TRUE)
          IN  /\ Becomes(e)
              /\ elapsed' = 0
              /\ pc' = "running"
    /\ UNCHANGED <<terminal, phase>>

\* one iteration of run(): the frame is drawn, then a resize event is read
ViewResize ==
    /\ pc = "running"
    /\ ~should_quit
    /\ \E h \in ViewHeights : height' = h
    /\ action' = "resize"
    /\ UNCHANGED <<buffer, cursor, mode, should_quit, status_message, is_dirty,
                   typewriter_mode, distraction_free, last_key, elapsed, pc,
                   terminal, phase>>

NextRender ==
    \/ SetupSized
    \/ OpenView
    \/ ViewKeyEvent
    \/ ViewResize

SpecRender == Init /\ [][NextRender]_vars

\* C21: with typewriter mode off, between two consecutive frames with the
\* same rendering height the scroll offset changes only when the cursor row
\* lies outside the previous frame's window [offset, offset + height): it
\* increases only when the row is at or below offset + height, decreases only
\* when the row is above offset, and is unchanged while the row stays inside.
C21_ScrollOnlyWhenCursorLeavesWindow ==
    [][(pc = "running" /\ pc' = "running"
          /\ ~typewriter_mode /\ ~typewriter_mode'
          /\ editor_height(height') = editor_height(height))
          => LET h      == editor_height(height)
                 offset == scroll_y(FALSE, cursor.row, h)
                 next   == scroll_y(FALSE, cursor'.row, h)
             IN  /\ next > offset => cursor'.row >= offset + h
                 /\ next < offset => cursor'.row < offset
                 /\ (offset <= cursor'.row /\ cursor'.row < offset + h)
                       => next = offset]_vars

\* C22: for every terminal height H, the rendering height used by render and
\* by Page Up/Down is H when distraction-free mode is on and max(H - 3, 0)
\* when it is off.
C22_RenderingHeight ==
    pc = "running" =>
        editor_height(height)
            = IF distraction_free THEN height ELSE Max(height - 3, 0)

\* C24: in Navigation mode an unmodified 'w' moves the cursor by the
\* word-right motion and an unmodified 'b' by the word-left motion.
C24_WordMotionKeys ==
    [][(pc = "running" /\ mode = "Navigation")
          => /\ Handled(Key("w")) => cursor' = move_word_right(cursor, buffer)
             /\ Handled(Key("b")) => cursor' = move_word_left(cursor, buffer)
      ]_vars

\* C29: in every rendered frame with rendering height h >= 1 and the cursor
\* row inside the document, the scroll offset s computed by render satisfies
\* s <= cursor.row < s + h, in typewriter mode and in normal mode alike.
C29_CursorRowIsDrawn ==
    (pc = "running" /\ editor_height(height) >= 1
        /\ cursor.row < line_count(buffer))
        => LET h == editor_height(height)
               s == scroll_y(typewriter_mode, cursor.row, h)
           IN  s <= cursor.row /\ cursor.row < s + h

\* C29 witness: a frame of a scrolled view in normal mode and one in
\* typewriter mode are both of this shape: the cursor is below the first
\* window of a terminal with at least one editor row.
C29_Witness ==
    /\ pc = "running"
    /\ editor_height(height) >= 1
    /\ cursor.row < line_count(buffer)
    /\ cursor.row >= editor_height(height)
    /\ scroll_y(typewriter_mode, cursor.row, editor_height(height)) > 0
    /\ action = "move"

----------------------------------------------------------------------------
(* TextBuffer::find_text                                                   *)

\* str::find(t): the byte offset of the first occurrence of t in s, or -1
\* for None
StrFind(s, t) ==
    LET at == {i \in 0..(Len(s) - Len(t)) : SubSeq(s, i + 1, i + Len(t)) = t}
    IN  IF at = {} THEN -1 ELSE CHOOSE i \in at : \A j \in at : i <= j

\* the `while let Some(pos) = line[start..].find(search_term)` loop on one
\* line: the columns pushed, and whether the slice line[start..] panics
\* (start past the end of the line or inside a character)
RECURSIVE FindFrom(_, _, _)
FindFrom(line, term, start) ==
    IF start > Len(line) \/ ~is_char_boundary(line, start)
    THEN [panics |-> TRUE, cols |-> <<>>]
    ELSE LET pos == StrFind(SubSeq(line, start + 1, Len(line)), term)
         IN  IF pos = -1
             THEN [panics |-> FALSE, cols |-> <<>>]
             ELSE LET rest == FindFrom(line, term, start + pos + 1)
                  IN  [panics |-> rest.panics,
                       cols   |-> <<start + pos>> \o rest.cols]

\* the (row, col) pairs pushed for rows row, row + 1, ...
RECURSIVE FindRows(_, _, _)
FindRows(ls, term, row) ==
    IF row >= Len(ls) THEN <<>>
    ELSE LET cols == FindFrom(ls[row + 1], term, 0).cols
         IN  [i \in 1..Len(cols) |-> <<row, cols[i]>>]
                 \o FindRows(ls, term, row + 1)

find_text_panics(b, term) ==
    \E row \in 0..(Len(b.lines) - 1) : FindFrom(b.lines[row + 1], term, 0).panics

find_text(b, term) == FindRows(b.lines, term, 0)

FindTerms ==
    {<<>>, <<"a">>, <<"a", "a">>, Utf8(EAcute),
     <<"a", "a", "a", "a", "a", "a">>}

\* all (row, col) at which term occurs in lines, by row and then by column
RECURSIVE Occurrences(_, _, _, _)
Occurrences(ls, term, row, col) ==
    IF row >= Len(ls) THEN <<>>
    ELSE IF col + Len(term) > Len(ls[row + 1])
         THEN Occurrences(ls, term, row + 1, 0)
         ELSE (IF SubSeq(ls[row + 1], col + 1, col + Len(term)) = term
               THEN << <<row, col>> >> ELSE <<>>)
                  \o Occurrences(ls, term, row, col + 1)

FooBoo == << <<"f", "o", "o">>, <<"b", "o", "o">> >>

\* C23: for every document and every non-empty search term, find_text(term)
\* returns exactly all (row, col) at which term occurs in line row, ordered
\* by row and then by column; for ["foo","boo"] and "o" it returns
\* [(0,1),(0,2),(1,1),(1,2)].
C23_FindTextAllOccurrences ==
    /\ find_text([lines |-> FooBoo], <<"o">>)
           = << <<0, 1>>, <<0, 2>>, <<1, 1>>, <<1, 2>> >>
    /\ pc = "new" =>
           \A term \in FindTerms \ {<<>>} :
               /\ ~find_text_panics(buffer, term)
               /\ find_text(buffer, term)
                      = Occurrences(buffer.lines, term, 0, 0)

\* C26: find_text(term) terminates and returns a result without indexing past
\* the end of a line for every document and every search term, including the
\* empty string and a term longer than every line.
C26_FindTextNeverOutOfRange ==
    pc = "new" => \A term \in FindTerms : ~find_text_panics(buffer, term)

----------------------------------------------------------------------------
(* SpecReload: the document written out with to_string and read back with  *)
(* load_from_string, as save_file followed by open_file does.              *)

\* [String]::join("\n")
RECURSIVE Join(_)
Join(ls) ==
    IF ls = <<>> THEN <<>>
    ELSE IF Len(ls) = 1 THEN Head(ls)
    ELSE Head(ls) \o <<LF>> \o Join(Tail(ls))

to_string(b) == Join(b.lines)

ReloadContents == SeqsUpTo({"a", CR, LF}, MaxSize)

ends_in_empty_line(b) ==
    Len(b.lines) >= 2 /\ b.lines[Len(b.lines)] = <<>>

ReloadLoad ==
    \E content \in ReloadContents :
        /\ Fits(load_from_string(buffer, content))
        /\ Called("load_from_string", load_from_string(buffer, content))

\* load_from_string(to_string()); the history records whether the document
\* written out ended in an empty line
BufReload ==
    /\ Fits(load_from_string(buffer, to_string(buffer)))
    /\ Called(IF ends_in_empty_line(buffer) THEN "reload_ends_in_empty_line"
              ELSE "reload",
              load_from_string(buffer, to_string(buffer)))

NextReload ==
    \/ ReloadLoad
    \/ BufInsertChar
    \/ BufInsertNewline
    \/ BufDeleteLine
    \/ BufUndo
    \/ BufReload

SpecReload == Init /\ [][NextReload]_vars

has_line_break(ls) ==
    \E r \in 1..Len(ls) : \E i \in 1..Len(ls[r]) : ls[r][i] \in {LF, CR}

\* C30: for every document whose lines contain no line-break characters,
\* load_from_string(to_string(doc)) yields doc when doc has a single line or
\* its last line is non-empty, and doc without its last line when doc has two
\* or more lines and the last line is empty.
C30_SaveThenOpen ==
    [][(/\ action' \in {"reload", "reload_ends_in_empty_line"}
        /\ ~has_line_break(buffer.lines))
       => buffer'.lines = IF ends_in_empty_line(buffer)
                          THEN SubSeq(buffer.lines, 1, Len(buffer.lines) - 1)
                          ELSE buffer.lines]_vars

\* C30 witness: a document of two or more lines ending in an empty line has
\* been written out and read back, and a non-empty line is left.
C30_Witness ==
    /\ action = "reload_ends_in_empty_line"
    /\ buffer.lines # << <<>> >>
    /\ ~has_line_break(buffer.lines)

----------------------------------------------------------------------------
(* Claims about the dirty flag, the chord memory and the preferred column. *)

\* C25: in every reachable session state, if the dirty flag is false then the
\* document lines equal the lines as they were at the most recent successful
\* open or save. As a property of steps: every step other than the open that
\* changes the lines leaves the dirty flag true, and the flag goes from true
\* to false only in an open or in a save. A Tab, whose four spaces are more
\* than the session's documents hold, is applied to each state it can be
\* pressed in.
C25_CleanMeansAsOpenedOrSaved ==
    [][/\ (buffer'.lines # buffer.lines /\ action' # "open") => is_dirty'
       /\ (pc = "running" /\ mode = "Insert")
              => handle_insert_key(Ed, Key("Tab"), TRUE).is_dirty
       /\ (is_dirty /\ ~is_dirty') => action' \in {"open", "save"}
       /\ (~is_dirty /\ ~is_dirty' /\ action' # "open")
              => buffer'.lines = buffer.lines]_vars

\* C25 witness: an undo has changed the lines and the dirty flag is true.
C25_Witness ==
    /\ action = "undo"
    /\ is_dirty
    /\ buffer.redo_stack # <<>>
    /\ buffer.redo_stack[Len(buffer.redo_stack)].lines # buffer.lines

\* the key codes of the vertical cursor moves
VerticalCodes == {"Up", "Down", "j", "k", "s", "w", "S", "W", "PageUp",
                  "PageDown"}

\* C28: after every key event handled by the session other than a vertical
\* cursor move, cursor.preferred_col = cursor.col; checked here after the
\* key events the claim names: Enter, Backspace, 'o' and dd.
C28_PreferredColFollowsCol ==
    [][(/\ KeyHandled
        /\ action' \in {"insert_newline", "backspace", "open_line",
                        "delete_line"}
        /\ last_key'.code \notin VerticalCodes)
       => cursor'.preferred_col = cursor'.col]_vars

----------------------------------------------------------------------------
(* SpecChord: runs of 'd' key events in Navigation mode over documents of   *)
(* several lines, with an undo history deep enough for three deletions.    *)

MaxChordDoc == 5
ChordDepths == 0..3
ChordContents == SeqsUpTo({"a", LF}, MaxChordDoc)
ChordKeys == {Key("d"), Ctrl("d"), Key("j"), Ctrl("z")}

FitsChord(b) ==
    /\ Len(b.lines) + TotalLen(b.lines) <= MaxChordDoc
    /\ Len(b.undo_stack) \in ChordDepths

OpenChord ==
    /\ pc = "open"
    /\ \E content \in ChordContents :
          LET b == load_from_string(buffer, content)
          IN  /\ FitsChord(b)
              /\ buffer' = [b EXCEPT !.file_path = "draft.md"]
    /\ status_message' = "Opened: draft.md"
    /\ is_dirty' = FALSE
    /\ pc' = "running"
    /\ action' = "open"
    /\ UNCHANGED <<cursor, height, mode, should_quit, typewriter_mode,
                   distraction_free, last_key, elapsed, terminal, phase>>

\* one iteration of run(): one of the ChordKeys is read and handled
ChordKeyEvent ==
    /\ pc = "running"
    /\ ~should_quit
    /\ \E k \in ChordKeys :
          LET e == handle_key_event(Ed, k, elapsed, TRUE)
          IN  /\ FitsChord(e.buffer)
              /\ Becomes(e)
    /\ elapsed' = 0
    /\ pc' = "running"
    /\ phase' = action
    /\ UNCHANGED terminal

NextChord ==
    \/ Setup
    \/ OpenChord
    \/ ChordKeyEvent
    \/ Idle

SpecChord == Init /\ [][NextChord]_vars

\* C27: the chord memory is not cleared when the dd chord fires: in
\* Navigation mode a 'd' less than 500 ms after a 'd' that fired delete-line
\* fires delete-line again, and a 'd' fires delete-line exactly when the key
\* event before it had the code 'd' less than 500 ms earlier; so of k >= 2
\* consecutive 'd' key events, each less than 500 ms after the previous one,
\* the first does not fire and each of the k - 1 others does.
C27_ChordMemoryKept ==
    [][(mode = "Navigation" /\ KeyHandled /\ last_key' = Key("d"))
       => /\ (action = "delete_line" /\ elapsed < DoubleKeyMs)
                 => action' = "delete_line"
          /\ action' = "delete_line" <=> ChordPartner(Key("d"))]_vars

\* C27 witness: two key events in a row have fired delete-line, the second
\* and third 'd' of 'ddd', and two lines of the document are gone.
C27_Witness ==
    /\ action = "delete_line"
    /\ phase = "delete_line"
    /\ last_key = Key("d")
    /\ Len(buffer.undo_stack) >= 2
    /\ LET n == Len(buffer.undo_stack)
       IN  /\ Len(buffer.undo_stack[n - 1].lines)
                  = Len(buffer.undo_stack[n].lines) + 1
           /\ Len(buffer.undo_stack[n].lines) = Len(buffer.lines) + 1

====
